---- MODULE Spec2Model ----
(***************************************************************************)
(* Dia offline voice assistant: the audio capture buffer shared by the     *)
(* PyAudio capture callback and the orchestrator loop (AudioManager), and  *)
(* the turn-taking loop of dia_assistant.main with the collaborators it    *)
(* drives (wake detector, recogniser, response generator, synthesiser,     *)
(* playback, error handler).                                               *)
(*                                                                         *)
(* Samples are numbered in capture order: the k-th sample ever appended    *)
(* by the callback has the value k, so order and eviction are observable.  *)
(* Recorded and synthesised audio are represented by their length in       *)
(* samples.  Rates and sizes are scaled down; every scale is a named       *)
(* bound.                                                                  *)
(***************************************************************************)
EXTENDS Integers, Sequences, FiniteSets, TLC

\* ---------------------------------------------------------------- bounds
MaxCap == 2
MaxChunk == 2
MaxCaptured == 3
MaxRate == 1
MaxAudio == 2
MaxLog == 1
\* longest buffer handed to detect
MaxScan == 7
\* largest max_attempts given to retry
MaxAttempts == 3
\* most devices PyAudio enumerates
MaxDevices == 2

\* ------------------------------------------------------ program constants
\* frame length required by the wake-word engine (scaled)
frame_length == 2
\* main() always records with max_duration=5
max_duration == 5
\* play_error_sound plays the synthesised tone three times
ErrorBeeps == 3
\* length of the synthesised error tone in samples (scaled)
ToneLength == 1

VARIABLES
    \* AudioManager configuration and shared buffer
    buffer_max_length, chunk_size, sample_rate,
    audio_buffer, buffer_lock, captured, cb_pc,
    \* PyAudio streams owned by AudioManager
    stream, record_stream, output_stream, leaked_in, leaked_out,
    \* collaborators' configuration
    engine_type, has_fallback, tts_engine, error_sound,
    \* dia_assistant.main
    running, pc, snapshot, snapshot_obj, frames, rec_path,
    query_audio, query_text, response_text, response_audio,
    exc, play_arg, play_caller, written, chunks, beeps,
    \* error handler's durable log
    error_log,
    \* main's start-up and return value, the PyAudio handle self.p
    inited, exit_code, pa, cleaned,
    \* single calls of detect, retry, handle_error and _find_devices on
    \* chosen inputs
    scan, retry, report, devices,
    \* observation of the current turn
    turn

cfgVars == <<buffer_max_length, chunk_size, sample_rate, engine_type,
             has_fallback, tts_engine, error_sound>>
bufVars == <<audio_buffer, buffer_lock, captured, cb_pc>>
streamVars == <<stream, record_stream, output_stream, leaked_in, leaked_out>>
dataVars == <<query_audio, query_text, response_text, response_audio>>
playVars == <<play_arg, play_caller, written, chunks, beeps>>
logVars == <<error_log>>
startVars == <<inited, exit_code, pa, cleaned>>
unitVars == <<scan, retry, report, devices>>
vars == <<cfgVars, startVars, unitVars, bufVars, streamVars, dataVars, playVars,
          logVars, running, pc, snapshot, snapshot_obj, frames, rec_path,
          exc, turn>>

\* ---------------------------------------------------------------- helpers
Min(a, b) ==
    IF a < b THEN a ELSE b

\* Python a[-n:] on a sequence: -0 is 0, so a[-0:] is the whole of a
PySliceLast(a, n) ==
    IF n <= 0 \/ n >= Len(a) THEN a ELSE SubSeq(a, Len(a) - n + 1, Len(a))

\* Python a[from:to] on audio of len samples, as the positions taken: the end
\* of the slice is clamped to the length
PySlice(len, from, to) ==
    [j \in 1..(Min(to, len) - from) |-> from + j]

\* the next count samples delivered by the device after total samples
Frame(total, count) ==
    [i \in 1..count |-> total + i]

\* the last k of the first m captured samples, in capture order
LastCaptured(m, k) ==
    [i \in 1..k |-> m - k + i]

NoTurn ==
    [detected |-> FALSE, raised |-> FALSE, failed |-> FALSE,
     trace |-> <<"WAKE_LISTENING">>,
     record |-> 0, transcribe |-> 0, generate |-> 0, synthesize |-> 0,
     play |-> 0, handle_error |-> 0, play_error_sound |-> 0,
     repaused |-> FALSE]

\* the pipeline state of the orchestrator at a program position
PipelineState(p, caller) ==
    CASE p \in {"loop", "listen", "listen_copied",
                "detect", "sleep"} -> "WAKE_LISTENING"
      [] p \in {"rec_stop", "rec_open", "rec_read", "rec_close",
                "rec_start", "rec_except"} -> "RECORDING"
      [] p = "transcribe" -> "TRANSCRIBING"
      [] p = "generate" -> "GENERATING"
      [] p = "synthesize" -> "SYNTHESIZING"
      [] p \in {"play_open", "play_write", "play_close"} ->
            IF caller = "main" THEN "PLAYING" ELSE "ERROR_RECOVERY"
      [] p \in {"except", "error_sound"} -> "ERROR_RECOVERY"
      [] p = "init" -> "IDLE"
      [] OTHER -> "STOPPED"

\* the turn record after the orchestrator moves to position p
Visit(t, p, caller) ==
    LET s == PipelineState(p, caller)
    IN IF s = t.trace[Len(t.trace)] THEN t
       ELSE [t EXCEPT !.trace = Append(@, s)]

\* -------------------------------------------------------------------- Init
\* get_default_config: rule engine with the built-in rules, TTS back end,
\* no error-sound asset
DefaultEngines ==
    /\ engine_type = "rules"
    /\ has_fallback = TRUE
    /\ tts_engine = "tts"
    /\ error_sound = FALSE

\* every engine set-up the constructors can leave behind: rules loaded from
\* a rules_file may lack the "fallback" rule, the built-in ones never do
AnyEngines ==
    /\ engine_type \in {"llm", "rules"}
    /\ has_fallback \in (IF engine_type = "llm" THEN {TRUE} ELSE BOOLEAN)
    /\ tts_engine \in {"tts", "espeak", "none"}
    /\ error_sound \in BOOLEAN

\* the buffer settings varied, the engines as get_default_config sets them
AudioVaried ==
    /\ buffer_max_length \in 0..MaxCap
    /\ chunk_size \in 1..MaxChunk
    /\ sample_rate = 1
    /\ DefaultEngines

\* the recording settings varied, the rest as above
RateVaried ==
    /\ buffer_max_length = MaxCap
    /\ chunk_size \in 1..MaxChunk
    /\ sample_rate \in 1..MaxRate
    /\ DefaultEngines

\* the engine set-up varied, the audio settings fixed
EnginesVaried ==
    /\ buffer_max_length = MaxCap
    /\ chunk_size = MaxChunk
    /\ sample_rate = 1
    /\ AnyEngines

\* the components main constructs, in the order it constructs them
Components ==
    <<"audio", "wake", "asr", "llm", "tts">>

\* the locals of main and the shared buffer before anything ran
Fresh ==
    /\ audio_buffer = <<>>
    /\ buffer_lock = "free"
    /\ captured = 0
    /\ cb_pc = "idle"
    /\ record_stream = "none"
    /\ output_stream = "none"
    /\ leaked_in = FALSE
    /\ leaked_out = FALSE
    /\ running = TRUE
    /\ snapshot = <<>>
    /\ snapshot_obj = "none"
    /\ exit_code = 0
    /\ cleaned = <<>>
    /\ frames = 0
    /\ rec_path = "none"
    /\ query_audio = 0
    /\ query_text = ""
    /\ response_text = ""
    /\ response_audio = 0
    /\ exc = "none"
    /\ play_arg = 0
    /\ play_caller = "none"
    /\ written = 0
    /\ chunks = <<>>
    /\ beeps = 0
    /\ error_log = 0

\* no single call under examination
UnitsIdle ==
    /\ scan = [buffer |-> <<>>, engine |-> <<>>, i |-> 0, fed |-> <<>>,
               ret |-> "idle"]
    /\ retry = [max |-> 0, script |-> <<>>, arg |-> "none", calls |-> 0,
                args |-> <<>>, reported |-> 0, from |-> 0, ret |-> "idle"]
    /\ report = [state |-> "idle"]
    /\ devices = [state |-> "idle"]

\* the objects as the constructors leave them: empty buffer, free lock,
\* callback stream started, no other stream open, loop about to start
Constructed ==
    /\ Fresh
    /\ UnitsIdle
    /\ stream = "active"
    /\ pa = "live"
    /\ inited = Len(Components)
    /\ pc = "loop"
    /\ turn = NoTurn

\* main entered: signal handlers installed, configuration loaded, no
\* component constructed yet
Launched ==
    /\ Fresh
    /\ UnitsIdle
    /\ stream = "none"
    /\ pa = "none"
    /\ inited = 0
    /\ pc = "init"
    /\ turn = [NoTurn EXCEPT !.trace = <<"IDLE">>]

\* The state after the constructors ran.  The configurations explored are
\* the default one with either the buffer settings, the recording settings
\* or the engine settings varied.
Init ==
    /\ AudioVaried \/ RateVaried \/ EnginesVaried
    /\ Constructed

\* ------------------------------------------- AudioManager._audio_callback
\* PortAudio delivers a frame while the callback stream is active; the
\* callback takes buffer_lock and appends, then trims and releases.
AudioCallbackAppend ==
    /\ cb_pc = "idle"
    /\ stream = "active"
    /\ buffer_lock = "free"
    /\ captured + chunk_size <= MaxCaptured
    /\ buffer_lock' = "callback"
    /\ audio_buffer' = audio_buffer \o Frame(captured, chunk_size)
    /\ captured' = captured + chunk_size
    /\ cb_pc' = "appended"
    /\ UNCHANGED <<cfgVars, unitVars, startVars, streamVars, dataVars, playVars, logVars,
                   running, pc, snapshot, snapshot_obj, frames, rec_path, exc, turn>>

\* if len(self.audio_buffer) > self.buffer_max_length: keep [-max:]
Trimmed(buf, n) ==
    IF Len(buf) > n THEN PySliceLast(buf, n) ELSE buf

AudioCallbackTrim ==
    /\ cb_pc = "appended"
    /\ audio_buffer' = Trimmed(audio_buffer, buffer_max_length)
    /\ buffer_lock' = "free"
    /\ cb_pc' = "idle"
    /\ UNCHANGED captured
    /\ UNCHANGED <<cfgVars, unitVars, startVars, streamVars, dataVars, playVars, logVars,
                   running, pc, snapshot, snapshot_obj, frames, rec_path, exc, turn>>

\* ------------------------------------------------------ dia_assistant.main
\* the orchestrator moves to position p with turn record t
Goto(p, caller, t) ==
    /\ pc' = p
    /\ turn' = Visit(t, p, caller)

\* MainInit carrying on into the loop after a constructor raised
MainInitSwallows ==
    /\ pc = "init"
    /\ IF inited < Len(Components)
       THEN \E ok \in BOOLEAN :
               /\ inited' = IF ok THEN inited + 1 ELSE inited
               /\ stream' = IF ok /\ Components[inited + 1] = "audio"
                             THEN "active" ELSE stream
               /\ pa' = IF ok /\ Components[inited + 1] = "audio"
                         THEN "live" ELSE pa
               /\ exit_code' = IF ok THEN exit_code ELSE 1
               /\ IF ok THEN UNCHANGED <<pc, turn>>
                        ELSE Goto("loop", "main", turn)
       ELSE /\ Goto("loop", "main", turn)
            /\ UNCHANGED <<inited, exit_code, stream, pa>>
    /\ UNCHANGED cleaned
    /\ UNCHANGED <<record_stream, output_stream, leaked_in, leaked_out>>
    /\ UNCHANGED <<cfgVars, unitVars, bufVars, dataVars, playVars, logVars,
                   running, snapshot, snapshot_obj, frames, rec_path, exc>>

\* the try block of main up to the loop: the five constructors in order.
\* AudioManager.__init__ opens and starts the callback stream; a constructor
\* that raises takes main to `except Exception: return 1`, then to finally
MainInit ==
    /\ pc = "init"
    /\ IF inited < Len(Components)
       THEN \E ok \in BOOLEAN :
               IF ok
               THEN /\ inited' = inited + 1
                    /\ stream' = IF Components[inited + 1] = "audio"
                                  THEN "active" ELSE stream
                    /\ pa' = IF Components[inited + 1] = "audio"
                              THEN "live" ELSE pa
                    /\ UNCHANGED <<pc, turn, exit_code>>
               ELSE /\ exit_code' = 1
                    /\ Goto("cleanup", "main", turn)
                    /\ UNCHANGED <<inited, stream, pa>>
       ELSE /\ Goto("loop", "main", turn)
            /\ UNCHANGED <<inited, exit_code, stream, pa>>
    /\ UNCHANGED cleaned
    /\ UNCHANGED <<record_stream, output_stream, leaked_in, leaked_out>>
    /\ UNCHANGED <<cfgVars, unitVars, bufVars, dataVars, playVars, logVars,
                   running, snapshot, snapshot_obj, frames, rec_path, exc>>

\* MainLoop for a loop that does not test the flag (while True)
MainLoopNoTest ==
    /\ pc = "loop"
    /\ pc' = "listen"
    /\ turn' = NoTurn
    /\ UNCHANGED <<cfgVars, unitVars, startVars, bufVars, streamVars, dataVars,
                   playVars, logVars, running, snapshot, snapshot_obj,
                   frames, rec_path, exc>>

\* while running:
MainLoop ==
    /\ pc = "loop"
    /\ IF running
       THEN pc' = "listen" /\ turn' = NoTurn
       ELSE pc' = "cleanup" /\ turn' = Visit(turn, "cleanup", "main")
    /\ UNCHANGED <<cfgVars, unitVars, startVars, bufVars, streamVars, dataVars, playVars, logVars,
                   running, snapshot, snapshot_obj, frames, rec_path, exc>>

\* signal_handler: SIGINT / SIGTERM clear the flag at any time
SignalHandler ==
    /\ running
    /\ pc # "done"
    /\ running' = FALSE
    /\ UNCHANGED <<cfgVars, unitVars, startVars, bufVars, streamVars, dataVars, playVars, logVars,
                   pc, snapshot, snapshot_obj, frames, rec_path, exc, turn>>

\* ------------------------------------------------------ AudioManager.listen
\* ListenCopy returning self.audio_buffer itself, without .copy()
ListenNoCopy ==
    /\ pc = "listen"
    /\ buffer_lock = "free"
    /\ buffer_lock' = "main"
    /\ snapshot' = audio_buffer
    /\ snapshot_obj' = "buffer"
    /\ Goto("listen_copied", "main", turn)
    /\ UNCHANGED <<audio_buffer, captured, cb_pc>>
    /\ UNCHANGED <<cfgVars, unitVars, startVars, streamVars, dataVars, playVars, logVars,
                   running, frames, rec_path, exc>>

\* with self.buffer_lock: return self.audio_buffer.copy()
ListenCopy ==
    /\ pc = "listen"
    /\ buffer_lock = "free"
    /\ buffer_lock' = "main"
    /\ snapshot' = audio_buffer
    /\ snapshot_obj' = "copy"
    /\ Goto("listen_copied", "main", turn)
    /\ UNCHANGED <<audio_buffer, captured, cb_pc>>
    /\ UNCHANGED <<cfgVars, unitVars, startVars, streamVars, dataVars, playVars, logVars,
                   running, frames, rec_path, exc>>

\* ListenRelease returning the copy without releasing buffer_lock
ListenReleaseKeepsLock ==
    /\ pc = "listen_copied"
    /\ Goto("detect", "main", turn)
    /\ UNCHANGED <<audio_buffer, buffer_lock, captured, cb_pc>>
    /\ UNCHANGED <<cfgVars, unitVars, startVars, streamVars, dataVars, playVars, logVars,
                   running, snapshot, snapshot_obj, frames, rec_path, exc>>

\* leaving the with block of listen releases buffer_lock
ListenRelease ==
    /\ pc = "listen_copied"
    /\ buffer_lock' = "free"
    /\ Goto("detect", "main", turn)
    /\ UNCHANGED <<audio_buffer, captured, cb_pc>>
    /\ UNCHANGED <<cfgVars, unitVars, startVars, streamVars, dataVars, playVars, logVars,
                   running, snapshot, snapshot_obj, frames, rec_path, exc>>

\* ------------------------------------------------- WakeWordDetector.detect
\* range(0, len - frame_length + 1, frame_length): whole frames only
FrameCount(len) ==
    IF len < frame_length THEN 0
    ELSE (len - frame_length) \div frame_length + 1

\* the engine's answer per frame: "no" (-1), "hit" (>= 0) or "raise"
RECURSIVE Scan(_, _, _)
Scan(eng, i, n) ==
    IF i > n THEN "no"
    ELSE IF eng[i] = "no" THEN Scan(eng, i + 1, n) ELSE eng[i]

\* True at the first hit; an engine exception is caught and gives False
Detect(eng, n) ==
    Scan(eng, 1, n) = "hit"

\* MainDetect with detect letting the engine's exception through
MainDetectRaises ==
    /\ pc = "detect"
    /\ \E eng \in [1..FrameCount(Len(snapshot)) -> {"no", "hit", "raise"}] :
          IF Detect(eng, FrameCount(Len(snapshot)))
          THEN /\ Goto("rec_stop", "main", [turn EXCEPT !.detected = TRUE,
                                                        !.record = @ + 1])
               /\ UNCHANGED exc
          ELSE IF Scan(eng, 1, FrameCount(Len(snapshot))) = "raise"
          THEN /\ exc' = "OSError"
               /\ Goto("except", "main",
                       [turn EXCEPT !.raised = TRUE, !.failed = TRUE])
          ELSE Goto("sleep", "main", turn) /\ UNCHANGED exc
    /\ snapshot' = <<>>
    /\ snapshot_obj' = "none"
    /\ UNCHANGED <<cfgVars, unitVars, startVars, bufVars, streamVars, dataVars, playVars, logVars,
                   running, frames, rec_path>>

\* if wake.detect(audio_buffer): ... ; the snapshot is not read afterwards.
\* detect catches an exception of the engine, logs it and returns False.
MainDetect ==
    /\ pc = "detect"
    /\ \E eng \in [1..FrameCount(Len(snapshot)) -> {"no", "hit", "raise"}] :
          IF Detect(eng, FrameCount(Len(snapshot)))
          THEN Goto("rec_stop", "main", [turn EXCEPT !.detected = TRUE,
                                                     !.record = @ + 1])
          ELSE Goto("sleep", "main",
                    [turn EXCEPT !.failed =
                        Scan(eng, 1, FrameCount(Len(snapshot))) = "raise"])
    /\ snapshot' = <<>>
    /\ snapshot_obj' = "none"
    /\ UNCHANGED <<cfgVars, unitVars, startVars, bufVars, streamVars, dataVars, playVars, logVars,
                   running, frames, rec_path, exc>>

\* time.sleep(0.01); the locals of the turn are dead
MainSleep ==
    /\ pc = "sleep"
    /\ Goto("loop", "main", turn)
    /\ query_audio' = 0
    /\ query_text' = ""
    /\ response_text' = ""
    /\ response_audio' = 0
    /\ frames' = 0
    /\ rec_path' = "none"
    /\ exc' = "none"
    /\ UNCHANGED <<cfgVars, unitVars, startVars, bufVars, streamVars, playVars, logVars,
                   running, snapshot, snapshot_obj>>

\* ------------------------------------------------ AudioManager.record_query
\* MaxFrames rounding the quotient up instead of truncating it
MaxFramesRoundUp(rate, chunk, duration) ==
    (rate * duration + chunk - 1) \div chunk

\* max_frames = int(self.sample_rate / self.chunk_size * max_duration)
MaxFrames(rate, chunk, duration) ==
    (rate * duration) \div chunk

\* an exception leaves the try block of main's loop body
Raise(name) ==
    /\ exc' = name
    /\ Goto("except", "main", [turn EXCEPT !.raised = TRUE, !.failed = TRUE])

\* StopOutcomes for a stop_stream that also fails on a stopped stream
StopOutcomesStrict(s) ==
    IF s = "active" THEN BOOLEAN ELSE {FALSE}

\* what Stream.stop_stream() can do: on a stream that is not running it
\* returns at once, on a running one the device call may raise
StopOutcomes(s) ==
    IF s = "active" THEN BOOLEAN ELSE {TRUE}

\* self.stream.stop_stream(), before the try block of record_query
RecordStop ==
    /\ pc = "rec_stop"
    /\ \E ok \in StopOutcomes(stream) :
          IF ok
          THEN /\ stream' = "stopped"
               /\ Goto("rec_open", "main",
                       [turn EXCEPT !.repaused = (stream = "stopped")])
               /\ UNCHANGED <<exc, rec_path>>
          ELSE /\ Raise("OSError")
               /\ rec_path' = "stop_failed"
               /\ UNCHANGED stream
    /\ UNCHANGED <<record_stream, output_stream, leaked_in, leaked_out>>
    /\ UNCHANGED <<cfgVars, unitVars, startVars, bufVars, dataVars, playVars, logVars,
                   running, snapshot, snapshot_obj, frames>>

\* record_stream = self.p.open(...); frames = []
RecordOpen ==
    /\ pc = "rec_open"
    /\ \E ok \in BOOLEAN :
          IF ok
          THEN /\ record_stream' = "open"
               /\ Goto("rec_read", "main", [turn EXCEPT !.repaused = FALSE])
               /\ UNCHANGED rec_path
          ELSE /\ rec_path' = "open_failed"
               /\ Goto("rec_except", "main", [turn EXCEPT !.failed = TRUE,
                                                         !.repaused = FALSE])
               /\ UNCHANGED record_stream
    /\ frames' = 0
    /\ UNCHANGED <<stream, output_stream, leaked_in, leaked_out>>
    /\ UNCHANGED <<cfgVars, unitVars, startVars, bufVars, dataVars, playVars, logVars,
                   running, snapshot, snapshot_obj, exc>>

\* for i in range(max_frames): data = record_stream.read(...); frames.append
RecordRead ==
    /\ pc = "rec_read"
    /\ frames < MaxFrames(sample_rate, chunk_size, max_duration)
    /\ \E ok \in BOOLEAN :
          IF ok
          THEN /\ frames' = frames + 1
               /\ Goto("rec_read", "main", turn)
               /\ UNCHANGED rec_path
          ELSE /\ rec_path' = "read_failed"
               /\ Goto("rec_except", "main", [turn EXCEPT !.failed = TRUE])
               /\ UNCHANGED frames
    /\ UNCHANGED <<cfgVars, unitVars, startVars, bufVars, streamVars, dataVars, playVars, logVars,
                   running, snapshot, snapshot_obj, exc>>

\* record_stream.stop_stream(); record_stream.close()
RecordClose ==
    /\ pc = "rec_read"
    /\ frames >= MaxFrames(sample_rate, chunk_size, max_duration)
    /\ \E ok \in BOOLEAN :
          IF ok
          THEN /\ record_stream' = "none"
               /\ Goto("rec_start", "main", turn)
               /\ UNCHANGED rec_path
          ELSE /\ rec_path' = "close_failed"
               /\ Goto("rec_except", "main", [turn EXCEPT !.failed = TRUE])
               /\ UNCHANGED record_stream
    /\ UNCHANGED <<stream, output_stream, leaked_in, leaked_out>>
    /\ UNCHANGED <<cfgVars, unitVars, startVars, bufVars, dataVars, playVars, logVars,
                   running, snapshot, snapshot_obj, frames, exc>>

\* RecordStart emptying the shared buffer when continuous capture resumes
RecordStartClearsBuffer ==
    /\ pc = "rec_start"
    /\ \E ok \in BOOLEAN :
          IF ok
          THEN /\ stream' = "active"
               /\ rec_path' = "normal"
               /\ query_audio' = frames * chunk_size
               /\ audio_buffer' = <<>>
               /\ Goto("transcribe", "main",
                       [turn EXCEPT !.transcribe = @ + 1])
          ELSE /\ rec_path' = "start_failed"
               /\ Goto("rec_except", "main", [turn EXCEPT !.failed = TRUE])
               /\ UNCHANGED <<stream, query_audio, audio_buffer>>
    /\ UNCHANGED <<buffer_lock, captured, cb_pc>>
    /\ UNCHANGED <<record_stream, output_stream, leaked_in, leaked_out>>
    /\ UNCHANGED <<query_text, response_text, response_audio>>
    /\ UNCHANGED <<cfgVars, unitVars, startVars, playVars, logVars,
                   running, snapshot, snapshot_obj, frames, exc>>

\* self.stream.start_stream(); return np.frombuffer(b''.join(frames))
RecordStart ==
    /\ pc = "rec_start"
    /\ \E ok \in BOOLEAN :
          IF ok
          THEN /\ stream' = "active"
               /\ rec_path' = "normal"
               /\ query_audio' = frames * chunk_size
               /\ Goto("transcribe", "main",
                       [turn EXCEPT !.transcribe = @ + 1])
          ELSE /\ rec_path' = "start_failed"
               /\ Goto("rec_except", "main", [turn EXCEPT !.failed = TRUE])
               /\ UNCHANGED <<stream, query_audio>>
    /\ UNCHANGED <<record_stream, output_stream, leaked_in, leaked_out>>
    /\ UNCHANGED <<query_text, response_text, response_audio>>
    /\ UNCHANGED <<cfgVars, unitVars, startVars, bufVars, playVars, logVars,
                   running, snapshot, snapshot_obj, frames, exc>>

\* RecordExcept with the restart of the callback stream left out
RecordExceptNoRestart ==
    /\ pc = "rec_except"
    /\ leaked_in' = (leaked_in \/ record_stream = "open")
    /\ record_stream' = "none"
    /\ query_audio' = 0
    /\ Goto("transcribe", "main", [turn EXCEPT !.transcribe = @ + 1])
    /\ UNCHANGED <<stream, output_stream, leaked_out>>
    /\ UNCHANGED <<query_text, response_text, response_audio>>
    /\ UNCHANGED <<cfgVars, unitVars, startVars, bufVars, playVars, logVars,
                   running, snapshot, snapshot_obj, frames, exc, rec_path>>

\* RecordExcept re-raising the failure after the restart instead of
\* returning an empty recording
RecordExceptReraise ==
    /\ pc = "rec_except"
    /\ leaked_in' = (leaked_in \/ record_stream = "open")
    /\ record_stream' = "none"
    /\ \E ok \in BOOLEAN :
          stream' = IF ok THEN "active" ELSE stream
    /\ Raise("OSError")
    /\ UNCHANGED <<output_stream, leaked_out>>
    /\ UNCHANGED <<dataVars, cfgVars, unitVars, startVars, bufVars, playVars, logVars,
                   running, snapshot, snapshot_obj, frames, rec_path>>

\* RecordExcept returning the frames read before the failure
RecordExceptPartial ==
    /\ pc = "rec_except"
    /\ leaked_in' = (leaked_in \/ record_stream = "open")
    /\ record_stream' = "none"
    /\ \E ok \in BOOLEAN :
          IF ok
          THEN /\ stream' = "active"
               /\ query_audio' = frames * chunk_size
               /\ Goto("transcribe", "main",
                       [turn EXCEPT !.transcribe = @ + 1])
               /\ UNCHANGED <<exc, rec_path>>
          ELSE /\ Raise("OSError")
               /\ rec_path' = "resume_failed"
               /\ UNCHANGED <<stream, query_audio>>
    /\ UNCHANGED <<output_stream, leaked_out>>
    /\ UNCHANGED <<query_text, response_text, response_audio>>
    /\ UNCHANGED <<cfgVars, unitVars, startVars, bufVars, playVars, logVars,
                   running, snapshot, snapshot_obj, frames>>

\* except Exception: self.stream.start_stream(); return empty array.
\* The handler does not close record_stream: PyAudio keeps it open.
RecordExcept ==
    /\ pc = "rec_except"
    /\ leaked_in' = (leaked_in \/ record_stream = "open")
    /\ record_stream' = "none"
    /\ \E ok \in BOOLEAN :
          IF ok
          THEN /\ stream' = "active"
               /\ query_audio' = 0
               /\ Goto("transcribe", "main",
                       [turn EXCEPT !.transcribe = @ + 1])
               /\ UNCHANGED <<exc, rec_path>>
          ELSE /\ Raise("OSError")
               /\ rec_path' = "resume_failed"
               /\ UNCHANGED <<stream, query_audio>>
    /\ UNCHANGED <<output_stream, leaked_out>>
    /\ UNCHANGED <<query_text, response_text, response_audio>>
    /\ UNCHANGED <<cfgVars, unitVars, startVars, bufVars, playVars, logVars,
                   running, snapshot, snapshot_obj, frames>>

\* ------------------------------------------- SpeechRecognizer.transcribe
\* what the Vosk recogniser can do with a recording of len samples
RecognizerOutcomes(len) ==
    IF len = 0 THEN {"silence", "raise"} ELSE {"text", "silence", "raise"}

\* Transcribe returning what was recognised before the recogniser raised
TranscribeKeepsPartial(outcome) ==
    IF outcome \in {"text", "raise"} THEN "query" ELSE ""

\* a recogniser exception is caught and "" is returned
Transcribe(outcome) ==
    IF outcome = "text" THEN "query" ELSE ""

MainTranscribe ==
    /\ pc = "transcribe"
    /\ \E o \in RecognizerOutcomes(query_audio) :
          /\ query_text' = Transcribe(o)
          /\ Goto("generate", "main",
                  [turn EXCEPT !.generate = @ + 1,
                               !.failed = @ \/ o = "raise"])
    /\ UNCHANGED <<query_audio, response_text, response_audio>>
    /\ UNCHANGED <<cfgVars, unitVars, startVars, bufVars, streamVars, playVars, logVars,
                   running, snapshot, snapshot_obj, frames, rec_path, exc>>

\* ------------------------------------- ResponseGenerator.generate_response
\* what the engine can do with a non-empty query
EngineOutcomes(engine) ==
    IF engine = "llm" THEN {"text", "blank", "raise"}
    ELSE {"match", "function", "nomatch"}

\* GenerateResponse without the early return for an empty query
GenerateResponseNoEmptyCheck(query, engine, fallback, outcome) ==
    IF engine = "llm"
    THEN CASE outcome = "text" -> "llm_text"
           [] outcome = "blank" -> ""
           [] OTHER -> "llm_trouble"
    ELSE CASE outcome = "match" -> "rule_response"
           [] outcome = "function" -> "function_result"
           [] OTHER -> IF fallback THEN "fallback_response" ELSE "KeyError"

\* the value returned, or "KeyError" when rules["fallback"] is missing
GenerateResponse(query, engine, fallback, outcome) ==
    IF query = "" THEN "didnt_catch"
    ELSE IF engine = "llm"
         THEN CASE outcome = "text" -> "llm_text"
                [] outcome = "blank" -> ""
                [] OTHER -> "llm_trouble"
         ELSE CASE outcome = "match" -> "rule_response"
                [] outcome = "function" -> "function_result"
                [] OTHER -> IF fallback THEN "fallback_response"
                            ELSE "KeyError"

MainGenerate ==
    /\ pc = "generate"
    /\ \E o \in EngineOutcomes(engine_type) :
          LET r == GenerateResponse(query_text, engine_type, has_fallback, o)
          IN IF r = "KeyError"
             THEN /\ Raise("KeyError")
                  /\ UNCHANGED response_text
             ELSE /\ response_text' = r
                  /\ Goto("synthesize", "main",
                          [turn EXCEPT !.synthesize = @ + 1,
                                       !.failed = @ \/ r = "llm_trouble"])
                  /\ UNCHANGED exc
    /\ UNCHANGED <<query_audio, query_text, response_audio>>
    /\ UNCHANGED <<cfgVars, unitVars, startVars, bufVars, streamVars, playVars, logVars,
                   running, snapshot, snapshot_obj, frames, rec_path>>

\* --------------------------------------------- SpeechSynthesizer.synthesize
\* what the synthesis back end can do with a non-empty text
SynthOutcomes(engine) ==
    IF engine = "none" THEN {<<"none", 0>>}
    ELSE {<<"fail", 0>>} \cup {<<"ok", n>> : n \in 1..MaxAudio}

\* Synthesize without the early return for an empty text
SynthesizeNoEmptyCheck(text, outcome) ==
    outcome[2]

\* the audio returned: every failure is caught and gives an empty array
Synthesize(text, outcome) ==
    IF text = "" THEN 0 ELSE outcome[2]

\* MainSynthesize with step 6 (audio.play) left out
MainSynthesizeNoPlay ==
    /\ pc = "synthesize"
    /\ \E o \in SynthOutcomes(tts_engine) :
          /\ response_audio' = Synthesize(response_text, o)
          /\ Goto("sleep", "main",
                  [turn EXCEPT !.failed = @ \/ (response_text # ""
                                                /\ o[1] # "ok")])
    /\ UNCHANGED <<play_arg, play_caller, written, chunks, beeps>>
    /\ UNCHANGED <<query_audio, query_text, response_text>>
    /\ UNCHANGED <<cfgVars, unitVars, startVars, bufVars, streamVars, logVars,
                   running, snapshot, snapshot_obj, frames, rec_path, exc>>

MainSynthesize ==
    /\ pc = "synthesize"
    /\ \E o \in SynthOutcomes(tts_engine) :
          /\ response_audio' = Synthesize(response_text, o)
          /\ play_arg' = Synthesize(response_text, o)
          /\ Goto("play_open", "main",
                  [turn EXCEPT !.play = @ + 1,
                               !.failed = @ \/ (response_text # ""
                                                /\ o[1] # "ok")])
    /\ play_caller' = "main"
    /\ UNCHANGED <<written, chunks, beeps>>
    /\ UNCHANGED <<query_audio, query_text, response_text>>
    /\ UNCHANGED <<cfgVars, unitVars, startVars, bufVars, streamVars, logVars,
                   running, snapshot, snapshot_obj, frames, rec_path, exc>>

\* ------------------------------------------------------- AudioManager.play
\* PlayReturn with a beep loop that never counts down
PlayReturnNoDecrement(t) ==
    IF play_caller = "error" /\ beeps > 1
    THEN /\ Goto("play_open", "error", t)
         /\ UNCHANGED <<play_arg, play_caller, beeps>>
    ELSE /\ beeps' = 0
         /\ play_arg' = 0
         /\ play_caller' = "none"
         /\ Goto("sleep", "main", t)

\* play returns to its caller: main's step 6, or the beep loop of
\* play_error_sound (for _ in range(3): self.play(error_tone))
PlayReturn(t) ==
    IF play_caller = "error" /\ beeps > 1
    THEN /\ beeps' = beeps - 1
         /\ Goto("play_open", "error", [t EXCEPT !.play = @ + 1])
         /\ UNCHANGED <<play_arg, play_caller>>
    ELSE /\ beeps' = 0
         /\ play_arg' = 0
         /\ play_caller' = "none"
         /\ Goto("sleep", "main", t)

\* output_stream = self.p.open(...); a failure is caught and logged
PlayOpen ==
    /\ pc = "play_open"
    /\ \E ok \in BOOLEAN :
          IF ok
          THEN /\ output_stream' = "open"
               /\ Goto("play_write", play_caller, turn)
               /\ UNCHANGED <<play_arg, play_caller, beeps>>
          ELSE /\ PlayReturn([turn EXCEPT !.failed = TRUE])
               /\ UNCHANGED output_stream
    /\ written' = 0
    /\ chunks' = <<>>
    /\ UNCHANGED <<stream, record_stream, leaked_in, leaked_out>>
    /\ UNCHANGED <<cfgVars, unitVars, startVars, bufVars, dataVars, logVars,
                   running, snapshot, snapshot_obj, frames, rec_path, exc>>

\* PlayWrite looping over whole chunks only: a shorter last chunk is not
\* written
PlayWriteWholeChunks ==
    /\ pc = "play_write"
    /\ written < play_arg
    /\ \E ok \in BOOLEAN :
          IF ok
          THEN /\ written' = Min(written + chunk_size, play_arg)
               /\ chunks' = IF written + chunk_size <= play_arg
                             THEN Append(chunks,
                                     PySlice(play_arg, written,
                                             written + chunk_size))
                             ELSE chunks
               /\ Goto("play_write", play_caller, turn)
               /\ UNCHANGED <<play_arg, play_caller, beeps>>
               /\ UNCHANGED <<output_stream, leaked_out>>
          ELSE /\ output_stream' = "none"
               /\ leaked_out' = TRUE
               /\ written' = 0
               /\ chunks' = <<>>
               /\ PlayReturn([turn EXCEPT !.failed = TRUE])
    /\ UNCHANGED <<stream, record_stream, leaked_in>>
    /\ UNCHANGED <<cfgVars, unitVars, startVars, bufVars, dataVars, logVars,
                   running, snapshot, snapshot_obj, frames, rec_path, exc>>

\* for i in range(0, len(audio_bytes), chunk_size_bytes): write(chunk);
\* a failed write is caught and the stream is left open
PlayWrite ==
    /\ pc = "play_write"
    /\ written < play_arg
    /\ \E ok \in BOOLEAN :
          IF ok
          THEN /\ written' = Min(written + chunk_size, play_arg)
               /\ chunks' = Append(chunks,
                      PySlice(play_arg, written, written + chunk_size))
               /\ Goto("play_write", play_caller, turn)
               /\ UNCHANGED <<play_arg, play_caller, beeps>>
               /\ UNCHANGED <<output_stream, leaked_out>>
          ELSE /\ output_stream' = "none"
               /\ leaked_out' = TRUE
               /\ written' = 0
               /\ chunks' = <<>>
               /\ PlayReturn([turn EXCEPT !.failed = TRUE])
    /\ UNCHANGED <<stream, record_stream, leaked_in>>
    /\ UNCHANGED <<cfgVars, unitVars, startVars, bufVars, dataVars, logVars,
                   running, snapshot, snapshot_obj, frames, rec_path, exc>>

\* output_stream.stop_stream(); output_stream.close()
PlayClose ==
    /\ pc = "play_write"
    /\ written >= play_arg
    /\ \E ok \in BOOLEAN :
          IF ok
          THEN /\ PlayReturn(turn)
               /\ UNCHANGED leaked_out
          ELSE /\ PlayReturn([turn EXCEPT !.failed = TRUE])
               /\ leaked_out' = TRUE
    /\ output_stream' = "none"
    /\ written' = 0
    /\ chunks' = <<>>
    /\ UNCHANGED <<stream, record_stream, leaked_in>>
    /\ UNCHANGED <<cfgVars, unitVars, startVars, bufVars, dataVars, logVars,
                   running, snapshot, snapshot_obj, frames, rec_path, exc>>

\* ------------------------------------------------ error_handler.handle_error
\* the class names of the exceptions classified
ErrorClasses ==
    {"OSError", "KeyError", "ValueError", "FileNotFoundError",
     "MemoryError", "BlockingIOError", "PortAudioError", "SoundFileError",
     "PorcupineError", "WakeTimeout", "VoskError",
     "SpeechRecognitionError", "LlamaError", "TTSError", "SynthesisError",
     "PyAudioTTSError"}

\* a class name as its characters
Spell(name) ==
    CASE name = "none" ->
            <<"n", "o", "n", "e">>
      [] name = "OSError" ->
            <<"O", "S", "E", "r", "r", "o", "r">>
      [] name = "KeyError" ->
            <<"K", "e", "y", "E", "r", "r", "o", "r">>
      [] name = "ValueError" ->
            <<"V", "a", "l", "u", "e", "E", "r", "r", "o", "r">>
      [] name = "FileNotFoundError" ->
            <<"F", "i", "l", "e", "N", "o", "t", "F", "o", "u", "n", "d", "E", "r", "r", "o", "r">>
      [] name = "MemoryError" ->
            <<"M", "e", "m", "o", "r", "y", "E", "r", "r", "o", "r">>
      [] name = "BlockingIOError" ->
            <<"B", "l", "o", "c", "k", "i", "n", "g", "I", "O", "E", "r", "r", "o", "r">>
      [] name = "PortAudioError" ->
            <<"P", "o", "r", "t", "A", "u", "d", "i", "o", "E", "r", "r", "o", "r">>
      [] name = "SoundFileError" ->
            <<"S", "o", "u", "n", "d", "F", "i", "l", "e", "E", "r", "r", "o", "r">>
      [] name = "PorcupineError" ->
            <<"P", "o", "r", "c", "u", "p", "i", "n", "e", "E", "r", "r", "o", "r">>
      [] name = "WakeTimeout" ->
            <<"W", "a", "k", "e", "T", "i", "m", "e", "o", "u", "t">>
      [] name = "VoskError" ->
            <<"V", "o", "s", "k", "E", "r", "r", "o", "r">>
      [] name = "SpeechRecognitionError" ->
            <<"S", "p", "e", "e", "c", "h", "R", "e", "c", "o", "g", "n", "i", "t", "i", "o", "n", "E", "r", "r", "o", "r">>
      [] name = "LlamaError" ->
            <<"L", "l", "a", "m", "a", "E", "r", "r", "o", "r">>
      [] name = "TTSError" ->
            <<"T", "T", "S", "E", "r", "r", "o", "r">>
      [] name = "SynthesisError" ->
            <<"S", "y", "n", "t", "h", "e", "s", "i", "s", "E", "r", "r", "o", "r">>
      [] name = "PyAudioTTSError" ->
            <<"P", "y", "A", "u", "d", "i", "o", "T", "T", "S", "E", "r", "r", "o", "r">>

\* "kw in name" on strings
Contains(name, kw) ==
    \E i \in 1..(Len(name) - Len(kw) + 1) :
        SubSeq(name, i, i + Len(kw) - 1) = kw

\* str.lower() on the letters that occur in the class names
Lower(name) ==
    LET up == <<"A", "B", "C", "D", "E", "F", "G", "H", "I", "J", "K", "L", "M", "N", "O", "P", "Q", "R", "S", "T", "U", "V", "W", "X", "Y", "Z">>
        low == <<"a", "b", "c", "d", "e", "f", "g", "h", "i", "j", "k", "l", "m", "n", "o", "p", "q", "r", "s", "t", "u", "v", "w", "x", "y", "z">>
    IN [i \in 1..Len(name) |->
          IF \E j \in 1..Len(up) : up[j] = name[i]
          THEN low[CHOOSE j \in 1..Len(up) : up[j] = name[i]]
          ELSE name[i]]

\* ClassifyError without the final else branch falling to the system test
ClassifyErrorNoUnknown(name) ==
    LET c == Spell(name)
    IN IF Contains(c, <<"A", "u", "d", "i", "o">>) \/ Contains(c, <<"P", "y", "A", "u", "d", "i", "o">>)
          \/ Contains(Lower(c), <<"s", "o", "u", "n", "d">>)
       THEN "audio_error"
       ELSE IF Contains(c, <<"P", "o", "r", "c", "u", "p", "i", "n", "e">>) \/ Contains(Lower(c), <<"w", "a", "k", "e">>)
       THEN "wake_word_error"
       ELSE IF Contains(c, <<"V", "o", "s", "k">>) \/ Contains(Lower(c), <<"r", "e", "c", "o", "g", "n", "i", "t", "i", "o", "n">>)
               \/ Contains(c, <<"A", "S", "R">>)
       THEN "asr_error"
       ELSE IF Contains(c, <<"L", "l", "a", "m", "a">>) \/ Contains(c, <<"L", "L", "M">>)
       THEN "llm_error"
       ELSE IF Contains(c, <<"T", "T", "S">>) \/ Contains(Lower(c), <<"s", "y", "n", "t", "h", "e", "s", "i", "s">>)
       THEN "tts_error"
       ELSE "system_error"

\* classify_error: substring tests on the exception's class name, in order
ClassifyError(name) ==
    LET c == Spell(name)
    IN IF Contains(c, <<"A", "u", "d", "i", "o">>) \/ Contains(c, <<"P", "y", "A", "u", "d", "i", "o">>)
          \/ Contains(Lower(c), <<"s", "o", "u", "n", "d">>)
       THEN "audio_error"
       ELSE IF Contains(c, <<"P", "o", "r", "c", "u", "p", "i", "n", "e">>) \/ Contains(Lower(c), <<"w", "a", "k", "e">>)
       THEN "wake_word_error"
       ELSE IF Contains(c, <<"V", "o", "s", "k">>) \/ Contains(Lower(c), <<"r", "e", "c", "o", "g", "n", "i", "t", "i", "o", "n">>)
               \/ Contains(c, <<"A", "S", "R">>)
       THEN "asr_error"
       ELSE IF Contains(c, <<"L", "l", "a", "m", "a">>) \/ Contains(c, <<"L", "L", "M">>)
       THEN "llm_error"
       ELSE IF Contains(c, <<"T", "T", "S">>) \/ Contains(Lower(c), <<"s", "y", "n", "t", "h", "e", "s", "i", "s">>)
       THEN "tts_error"
       ELSE IF \E k \in {<<"O", "S">>, <<"I", "O">>, <<"F", "i", "l", "e">>,
                         <<"M", "e", "m", "o", "r", "y">>, <<"S", "y", "s", "t", "e", "m">>} :
                  Contains(c, k)
       THEN "system_error"
       ELSE "unknown_error"

\* recovery_actions.get(error_type, "Restart service")
GetRecoveryAction(type) ==
    CASE type = "audio_error" ->
            "Restart audio subsystem and check hardware connections"
      [] type = "wake_word_error" -> "Reload wake word model"
      [] type = "asr_error" -> "Restart ASR engine"
      [] type = "llm_error" -> "Fall back to rule-based responses"
      [] type = "tts_error" -> "Fall back to espeak TTS"
      [] type = "system_error" ->
            "Check system resources and restart service if needed"
      [] type = "unknown_error" -> "Restart component or full service"
      [] OTHER -> "Restart service"

\* HandleErrorRaises for a save_error_report without its try/except
HandleErrorRaisesUnguarded(saved) ==
    ~saved

\* save_error_report catches every failure of writing the log, and nothing
\* else in handle_error raises
HandleErrorRaises(saved) ==
    FALSE

\* MainExcept with the call of play_error_sound left out
MainExceptNoSound ==
    /\ pc = "except"
    /\ \E saved \in BOOLEAN :
          /\ error_log' = IF saved THEN Min(error_log + 1, MaxLog)
                          ELSE error_log
          /\ Goto("sleep", "main", [turn EXCEPT !.handle_error = @ + 1])
    /\ UNCHANGED <<cfgVars, unitVars, startVars, bufVars, streamVars, dataVars, playVars,
                   running, snapshot, snapshot_obj, frames, rec_path, exc>>

\* MainExcept with the call of handle_error left out
MainExceptNoReport ==
    /\ pc = "except"
    /\ Goto("error_sound", "main", turn)
    /\ UNCHANGED <<cfgVars, unitVars, startVars, bufVars, streamVars, dataVars,
                   playVars, logVars, running, snapshot, snapshot_obj,
                   frames, rec_path, exc>>

\* MainExcept starting the turn's recording again after the report
MainExceptRetry ==
    /\ pc = "except"
    /\ \E saved \in BOOLEAN :
          /\ error_log' = IF saved THEN Min(error_log + 1, MaxLog)
                          ELSE error_log
          /\ Goto("rec_stop", "main",
                  [turn EXCEPT !.handle_error = @ + 1,
                               !.record = @ + 1])
    /\ UNCHANGED <<cfgVars, unitVars, startVars, bufVars, streamVars, dataVars,
                   playVars, running, snapshot, snapshot_obj, frames,
                   rec_path, exc>>

\* MainExcept with save_error_report rewriting the log file: a failed write
\* leaves it empty
MainExceptTruncates ==
    /\ pc = "except"
    /\ \E saved \in BOOLEAN :
          /\ error_log' = IF saved THEN Min(error_log + 1, MaxLog) ELSE 0
          /\ Goto("error_sound", "main",
                  [turn EXCEPT !.handle_error = @ + 1])
    /\ UNCHANGED <<cfgVars, unitVars, startVars, bufVars, streamVars, dataVars, playVars,
                   running, snapshot, snapshot_obj, frames, rec_path, exc>>

\* MainExcept acting on the recovery hint handle_error returns: the service
\* is restarted when the hint for a system error says so
MainExceptAppliesHint ==
    /\ pc = "except"
    /\ \E saved \in BOOLEAN :
          /\ error_log' = IF saved THEN Min(error_log + 1, MaxLog)
                          ELSE error_log
          /\ IF GetRecoveryAction(ClassifyError(exc)) =
                   "Check system resources and restart service if needed"
             THEN Goto("cleanup", "main",
                       [turn EXCEPT !.handle_error = @ + 1])
             ELSE Goto("error_sound", "main",
                       [turn EXCEPT !.handle_error = @ + 1])
    /\ UNCHANGED <<cfgVars, unitVars, startVars, bufVars, streamVars, dataVars, playVars,
                   running, snapshot, snapshot_obj, frames, rec_path, exc>>

\* except Exception as e: error_handler.handle_error(e); the dict it returns
\* (error type, message, recovery action) is dropped
MainExcept ==
    /\ pc = "except"
    /\ \E saved \in BOOLEAN :
          /\ error_log' = IF saved THEN Min(error_log + 1, MaxLog)
                          ELSE error_log
          /\ IF HandleErrorRaises(saved)
             THEN Goto("cleanup", "main",
                       [turn EXCEPT !.handle_error = @ + 1])
             ELSE Goto("error_sound", "main",
                       [turn EXCEPT !.handle_error = @ + 1])
    /\ UNCHANGED <<cfgVars, unitVars, startVars, bufVars, streamVars, dataVars, playVars,
                   running, snapshot, snapshot_obj, frames, rec_path, exc>>

\* MainErrorSound synthesising the tone also when an asset is configured
MainErrorSoundAlwaysTone ==
    /\ pc = "error_sound"
    /\ beeps' = ErrorBeeps
    /\ play_arg' = ToneLength
    /\ play_caller' = "error"
    /\ Goto("play_open", "error",
            [turn EXCEPT !.play_error_sound = @ + 1, !.play = @ + 1])
    /\ UNCHANGED <<written, chunks>>
    /\ UNCHANGED <<cfgVars, unitVars, startVars, bufVars, streamVars, dataVars, logVars,
                   running, snapshot, snapshot_obj, frames, rec_path, exc>>

\* try: audio.play_error_sound() except: pass.  With an existing asset
\* self.play(path) once, else the synthesised tone ErrorBeeps times.
MainErrorSound ==
    /\ pc = "error_sound"
    /\ IF error_sound
       THEN beeps' = 1 /\ play_arg' = MaxAudio
       ELSE beeps' = ErrorBeeps /\ play_arg' = ToneLength
    /\ play_caller' = "error"
    /\ Goto("play_open", "error",
            [turn EXCEPT !.play_error_sound = @ + 1, !.play = @ + 1])
    /\ UNCHANGED <<written, chunks>>
    /\ UNCHANGED <<cfgVars, unitVars, startVars, bufVars, streamVars, dataVars, logVars,
                   running, snapshot, snapshot_obj, frames, rec_path, exc>>

\* ---------------------------------------------------- AudioManager.cleanup
\* what cleanup's try block can do: stop_stream raises (running stream
\* only), close raises, or all of stop, close and terminate succeed
CleanupOutcomes(s) ==
    IF s = "active" THEN {"ok", "stop_raised", "close_raised"}
    ELSE {"ok", "close_raised"}

\* the components whose cleanup lets an exception out, of those whose
\* cleanup ran into one, if no cleanup method caught its own
CleanupEscapesUnguarded(raising) ==
    raising

\* the components whose cleanup lets an exception out, of those whose
\* cleanup ran into one: AudioManager.cleanup, WakeWordDetector.cleanup and
\* SpeechSynthesizer.cleanup catch their own, the other two only log
CleanupEscapes(raising) ==
    raising \ {"audio", "wake", "tts"}

\* the cleanup calls of the finally block from the k-th on, with n
\* components constructed: the calls are made in order inside one try, so
\* the block ends at the first name that was never bound (UnboundLocalError)
\* and at the first cleanup that lets an exception out
RECURSIVE CleanupCalls(_, _, _)
CleanupCalls(k, n, escapes) ==
    IF k > Len(Components) \/ k > n THEN <<>>
    ELSE IF Components[k] \in escapes THEN <<Components[k]>>
    ELSE <<Components[k]>> \o CleanupCalls(k + 1, n, escapes)

\* finally: audio.cleanup() ...: stop and close the callback stream, then
\* terminate PyAudio (which closes every stream still open); an exception on
\* the way is caught and logged and the rest of the block is skipped.  With
\* no AudioManager constructed the name audio is unbound and nothing is done.
MainCleanup ==
    /\ pc = "cleanup"
    /\ IF inited = 0
       THEN UNCHANGED <<stream, pa, leaked_in, leaked_out>>
       ELSE \E o \in CleanupOutcomes(stream) :
               CASE o = "ok" ->
                      /\ stream' = "closed"
                      /\ pa' = "terminated"
                      /\ leaked_in' = FALSE
                      /\ leaked_out' = FALSE
                 [] o = "stop_raised" ->
                      UNCHANGED <<stream, pa, leaked_in, leaked_out>>
                 [] o = "close_raised" ->
                      /\ stream' = "stopped"
                      /\ UNCHANGED <<pa, leaked_in, leaked_out>>
    /\ \E raising \in SUBSET {"audio", "wake", "tts"} :
          cleaned' = CleanupCalls(1, inited, CleanupEscapes(raising))
    /\ Goto("done", "main", turn)
    /\ UNCHANGED <<inited, exit_code, record_stream, output_stream>>
    /\ UNCHANGED <<cfgVars, unitVars, bufVars, dataVars, playVars, logVars,
                   running, snapshot, snapshot_obj, frames, rec_path, exc>>

\* ============================================== single calls on chosen inputs
\* --------------------------------------------------- WakeWordDetector.detect
\* DetectFrame going on with the next frame after a detection
DetectFrameNoReturn ==
    /\ scan.ret = "none"
    /\ scan.i < Len(scan.buffer) - frame_length + 1
    /\ LET frame == SubSeq(scan.buffer, scan.i + 1, scan.i + frame_length)
           result == scan.engine[Len(scan.fed) + 1]
       IN scan' = [scan EXCEPT
                     !.fed = Append(@, frame),
                     !.i = IF result = "raise" THEN @ ELSE @ + frame_length,
                     !.ret = IF result = "raise" THEN "false" ELSE "none"]
    /\ UNCHANGED <<cfgVars, startVars, bufVars, streamVars, dataVars,
                   playVars, logVars, running, pc, snapshot, snapshot_obj,
                   frames, rec_path, exc, turn, retry, report, devices>>

\* one pass of the loop over range(0, len - frame_length + 1, frame_length):
\* frame = audio_buffer[i:i + frame_length]; result = porcupine.process(frame);
\* result >= 0 returns True, an exception is caught and returns False
DetectFrame ==
    /\ scan.ret = "none"
    /\ scan.i < Len(scan.buffer) - frame_length + 1
    /\ LET frame == SubSeq(scan.buffer, scan.i + 1, scan.i + frame_length)
           result == scan.engine[Len(scan.fed) + 1]
       IN scan' = [scan EXCEPT
                     !.fed = Append(@, frame),
                     !.i = IF result = "no" THEN @ + frame_length ELSE @,
                     !.ret = CASE result = "hit" -> "true"
                               [] result = "raise" -> "false"
                               [] OTHER -> "none"]
    /\ UNCHANGED <<cfgVars, startVars, bufVars, streamVars, dataVars,
                   playVars, logVars, running, pc, snapshot, snapshot_obj,
                   frames, rec_path, exc, turn, retry, report, devices>>

\* the loop is exhausted: return False
DetectEnd ==
    /\ scan.ret = "none"
    /\ ~(scan.i < Len(scan.buffer) - frame_length + 1)
    /\ scan' = [scan EXCEPT !.ret = "false"]
    /\ UNCHANGED <<cfgVars, startVars, bufVars, streamVars, dataVars,
                   playVars, logVars, running, pc, snapshot, snapshot_obj,
                   frames, rec_path, exc, turn, retry, report, devices>>

\* ------------------------------------------------- retry (retry_on_error)
\* RetryAttempt allowing one attempt more than max_attempts
RetryAttemptOneMore ==
    /\ retry.ret = "none"
    /\ retry.calls <= retry.max
    /\ LET n == retry.calls + 1
       IN retry' = [retry EXCEPT
                      !.calls = n,
                      !.args = Append(@, retry.arg),
                      !.ret = IF retry.script[n] = "ok" THEN "value"
                              ELSE IF n > retry.max THEN "raised"
                              ELSE "none",
                      !.from = IF retry.script[n] = "ok" \/ n > retry.max
                               THEN n ELSE @,
                      !.reported = IF retry.script[n] = "fail"
                                      /\ n > retry.max
                                   THEN @ + 1 ELSE @]
    /\ UNCHANGED <<cfgVars, startVars, bufVars, streamVars, dataVars,
                   playVars, logVars, running, pc, snapshot, snapshot_obj,
                   frames, rec_path, exc, turn, scan, report, devices>>

\* RetryAttempt calling the operation again after it succeeded
RetryAttemptAfterSuccess ==
    /\ retry.calls < retry.max
    /\ retry.ret \in {"none", "value"}
    /\ LET n == retry.calls + 1
       IN retry' = [retry EXCEPT
                      !.calls = n,
                      !.args = Append(@, retry.arg),
                      !.ret = IF retry.script[n] = "ok" THEN "value"
                              ELSE IF n = retry.max THEN "raised"
                              ELSE "none",
                      !.from = IF retry.script[n] = "ok" \/ n = retry.max
                               THEN n ELSE @,
                      !.reported = IF retry.script[n] = "fail"
                                      /\ n = retry.max
                                   THEN @ + 1 ELSE @]
    /\ UNCHANGED <<cfgVars, startVars, bufVars, streamVars, dataVars,
                   playVars, logVars, running, pc, snapshot, snapshot_obj,
                   frames, rec_path, exc, turn, scan, report, devices>>

\* one attempt of retry(operation, max_attempts): invoke the operation with
\* the caller's arguments; a success is returned; a failure is retried while
\* attempts are left, and the failure of the last attempt is reported once
\* and re-raised
RetryAttempt ==
    /\ retry.ret = "none"
    /\ retry.calls < retry.max
    /\ LET n == retry.calls + 1
       IN retry' = [retry EXCEPT
                      !.calls = n,
                      !.args = Append(@, retry.arg),
                      !.ret = IF retry.script[n] = "ok" THEN "value"
                              ELSE IF n = retry.max THEN "raised"
                              ELSE "none",
                      !.from = IF retry.script[n] = "ok" \/ n = retry.max
                               THEN n ELSE @,
                      !.reported = IF retry.script[n] = "fail"
                                      /\ n = retry.max
                                   THEN @ + 1 ELSE @]
    /\ UNCHANGED <<cfgVars, startVars, bufVars, streamVars, dataVars,
                   playVars, logVars, running, pc, snapshot, snapshot_obj,
                   frames, rec_path, exc, turn, scan, report, devices>>

\* ------------------------------------------------ error_handler.handle_error
\* the record save_error_report builds (timestamp, message and stack trace
\* left out)
ErrorReport(name) ==
    [error_type |-> ClassifyError(name), error_class |-> name]

\* handle_error(e): classify, save the report (a failed write is caught),
\* return error type, message and recovery action
HandleError ==
    /\ report.state = "raised"
    /\ \E saved \in BOOLEAN :
          report' = [state |-> "handled",
                     error_class |-> report.error_class,
                     saved |-> IF saved
                               THEN <<ErrorReport(report.error_class)>>
                               ELSE <<>>,
                     returned |->
                        [error_type |-> ClassifyError(report.error_class),
                         recovery_action |-> GetRecoveryAction(
                             ClassifyError(report.error_class))]]
    /\ UNCHANGED <<cfgVars, startVars, bufVars, streamVars, dataVars,
                   playVars, logVars, running, pc, snapshot, snapshot_obj,
                   frames, rec_path, exc, turn, scan, retry, devices>>

\* ------------------------------------------------ AudioManager._find_devices
\* the configured input_device_name and output_device_name (shortened)
input_device_name ==
    <<"M", "i", "c">>

output_device_name ==
    <<"D", "A", "C">>

\* the names PyAudio reports for the devices (shortened)
DeviceNames ==
    {<<"U", "S", "B", " ", "M", "i", "c">>,
     <<"D", "A", "C", "+">>,
     <<"M", "i", "c", " ", "D", "A", "C">>,
     <<"H", "D", "M", "I">>}

\* FindDevicesStep selecting by name alone, whatever the channel counts
FindDevicesStepNameOnly ==
    /\ devices.state = "scanning"
    /\ devices.i < Len(devices.list)
    /\ LET device_info == devices.list[devices.i + 1]
           device_name == device_info.name
       IN devices' = [devices EXCEPT
             !.i = @ + 1,
             !.input_device_index =
                 IF Contains(device_name, input_device_name)
                 THEN [kind |-> "index", i |-> devices.i] ELSE @,
             !.output_device_index =
                 IF Contains(device_name, output_device_name)
                 THEN [kind |-> "index", i |-> devices.i] ELSE @]
    /\ UNCHANGED <<cfgVars, startVars, bufVars, streamVars, dataVars,
                   playVars, logVars, running, pc, snapshot, snapshot_obj,
                   frames, rec_path, exc, turn, scan, retry, report>>

\* one pass of `for i in range(self.p.get_device_count())`: a device whose
\* name contains the configured name and that has channels of the kind is
\* selected, a later one replacing an earlier one
FindDevicesStep ==
    /\ devices.state = "scanning"
    /\ devices.i < Len(devices.list)
    /\ LET device_info == devices.list[devices.i + 1]
           device_name == device_info.name
       IN devices' = [devices EXCEPT
             !.i = @ + 1,
             !.input_device_index =
                 IF Contains(device_name, input_device_name)
                    /\ device_info.maxInputChannels > 0
                 THEN [kind |-> "index", i |-> devices.i] ELSE @,
             !.output_device_index =
                 IF Contains(device_name, output_device_name)
                    /\ device_info.maxOutputChannels > 0
                 THEN [kind |-> "index", i |-> devices.i] ELSE @]
    /\ UNCHANGED <<cfgVars, startVars, bufVars, streamVars, dataVars,
                   playVars, logVars, running, pc, snapshot, snapshot_obj,
                   frames, rec_path, exc, turn, scan, retry, report>>

\* PortAudio has a default input (output) device when some device has input
\* (output) channels; get_default_*_device_info raises IOError otherwise
HasDefault(list, channels) ==
    \E k \in 1..Len(list) : list[k][channels] > 0

\* after the loop: an index still None is replaced by the default device's;
\* with no default device the lookup raises out of _find_devices
FindDevicesDefaults ==
    /\ devices.state = "scanning"
    /\ devices.i = Len(devices.list)
    /\ IF devices.input_device_index.kind = "None"
          /\ ~HasDefault(devices.list, "maxInputChannels")
       THEN devices' = [devices EXCEPT !.state = "raised"]
       ELSE IF devices.output_device_index.kind = "None"
               /\ ~HasDefault(devices.list, "maxOutputChannels")
       THEN devices' = [devices EXCEPT
                !.state = "raised",
                !.input_device_index =
                    IF @.kind = "None" THEN [kind |-> "default", i |-> 0]
                    ELSE @]
       ELSE devices' = [devices EXCEPT
                !.state = "returned",
                !.input_device_index =
                    IF @.kind = "None" THEN [kind |-> "default", i |-> 0]
                    ELSE @,
                !.output_device_index =
                    IF @.kind = "None" THEN [kind |-> "default", i |-> 0]
                    ELSE @]
    /\ UNCHANGED <<cfgVars, startVars, bufVars, streamVars, dataVars,
                   playVars, logVars, running, pc, snapshot, snapshot_obj,
                   frames, rec_path, exc, turn, scan, retry, report>>

\* ------------------------------------------------------------- single calls
\* detect called on a buffer of any length up to MaxScan, with any answers
\* of the engine to the frames it is fed
ScanInputs ==
    /\ \E n \in 0..MaxScan :
          \E e \in [1..FrameCount(n) -> {"no", "hit", "raise"}] :
             scan = [buffer |-> [j \in 1..n |-> j], engine |-> e, i |-> 0,
                     fed |-> <<>>, ret |-> "none"]
    /\ retry = [max |-> 0, script |-> <<>>, arg |-> "none", calls |-> 0,
                args |-> <<>>, reported |-> 0, from |-> 0, ret |-> "idle"]
    /\ report = [state |-> "idle"]
    /\ devices = [state |-> "idle"]

\* retry called with any max_attempts up to MaxAttempts, on an operation
\* with any sequence of successes and failures, with either argument
RetryInputs ==
    /\ \E n \in 1..MaxAttempts :
          \E sc \in [1..(MaxAttempts + 1) -> {"ok", "fail"}] :
             \E a \in {"audio_data", "prompt"} :
                retry = [max |-> n, script |-> sc, arg |-> a, calls |-> 0,
                         args |-> <<>>, reported |-> 0, from |-> 0,
                         ret |-> "none"]
    /\ scan = [buffer |-> <<>>, engine |-> <<>>, i |-> 0, fed |-> <<>>,
               ret |-> "idle"]
    /\ report = [state |-> "idle"]
    /\ devices = [state |-> "idle"]

\* handle_error called with an exception of any of the classes
ReportInputs ==
    /\ \E name \in ErrorClasses :
          report = [state |-> "raised", error_class |-> name]
    /\ scan = [buffer |-> <<>>, engine |-> <<>>, i |-> 0, fed |-> <<>>,
               ret |-> "idle"]
    /\ retry = [max |-> 0, script |-> <<>>, arg |-> "none", calls |-> 0,
                args |-> <<>>, reported |-> 0, from |-> 0, ret |-> "idle"]
    /\ devices = [state |-> "idle"]

\* _find_devices called with any list of up to MaxDevices devices, each with
\* one of the names and with or without input and output channels
DeviceInputs ==
    /\ \E n \in 0..MaxDevices :
          \E l \in [1..n -> [name : DeviceNames, maxInputChannels : 0..1,
                              maxOutputChannels : 0..1]] :
             devices = [state |-> "scanning", list |-> l, i |-> 0,
                        input_device_index |-> [kind |-> "None", i |-> 0],
                        output_device_index |-> [kind |-> "None", i |-> 0]]
    /\ scan = [buffer |-> <<>>, engine |-> <<>>, i |-> 0, fed |-> <<>>,
               ret |-> "idle"]
    /\ retry = [max |-> 0, script |-> <<>>, arg |-> "none", calls |-> 0,
                args |-> <<>>, reported |-> 0, from |-> 0, ret |-> "idle"]
    /\ report = [state |-> "idle"]

\* one component method called on its own, outside the loop
UnitInit ==
    /\ DefaultEngines
    /\ buffer_max_length = MaxCap
    /\ chunk_size = MaxChunk
    /\ sample_rate = MaxRate
    /\ Fresh
    /\ stream = "none"
    /\ pa = "none"
    /\ inited = 0
    /\ pc = "unit"
    /\ turn = NoTurn
    /\ ScanInputs \/ RetryInputs \/ ReportInputs \/ DeviceInputs

UnitNext ==
    \/ DetectFrame
    \/ DetectEnd
    \/ RetryAttempt
    \/ HandleError
    \/ FindDevicesStep
    \/ FindDevicesDefaults

UnitSpec ==
    UnitInit /\ [][UnitNext]_vars

\* -------------------------------------------------------------------- Next
CallbackStep ==
    \/ AudioCallbackAppend
    \/ AudioCallbackTrim

MainStep ==
    \/ MainLoop
    \/ ListenCopy
    \/ ListenRelease
    \/ MainDetect
    \/ RecordStop
    \/ RecordOpen
    \/ RecordRead
    \/ RecordClose
    \/ RecordStart
    \/ RecordExcept
    \/ MainTranscribe
    \/ MainGenerate
    \/ MainSynthesize
    \/ PlayOpen
    \/ PlayWrite
    \/ PlayClose
    \/ MainExcept
    \/ MainErrorSound
    \/ MainSleep
    \/ MainCleanup

Next ==
    \/ CallbackStep
    \/ MainStep
    \/ SignalHandler

Spec ==
    Init /\ [][Next]_vars

\* the threads are scheduled: neither is starved while it can run
FairSpec ==
    /\ Spec
    /\ WF_vars(MainStep)
    /\ WF_vars(CallbackStep)

\* the loop under the buffer settings alone, the engines as configured by
\* default
BufferVaried ==
    /\ AudioVaried
    /\ Constructed

\* capture thread and main thread contending for buffer_lock, both scheduled
LockSpec ==
    /\ BufferVaried
    /\ [][Next]_vars
    /\ WF_vars(MainStep)
    /\ WF_vars(CallbackStep)

\* the whole run of main, from its entry to its return
MainNext ==
    \/ MainInit
    \/ Next

\* main entered, under the configurations Init explores
MainEntered ==
    /\ AudioVaried \/ RateVaried \/ EnginesVaried
    /\ Launched

MainSpec ==
    MainEntered /\ [][MainNext]_vars

\* ================================================================ claims
FullTurn ==
    <<"WAKE_LISTENING", "RECORDING", "TRANSCRIBING", "GENERATING",
      "SYNTHESIZING", "PLAYING", "WAKE_LISTENING">>

CaughtRecordingFailures ==
    {"open_failed", "read_failed", "close_failed", "start_failed"}

RaisedRecordingFailures ==
    {"stop_failed", "resume_failed"}

\* C1: whenever buffer_lock is free the shared buffer holds at most
\* buffer_max_length samples, and no snapshot returned by listen() is longer
\* than buffer_max_length.
BufferWithinCapacity ==
    /\ buffer_lock = "free" => Len(audio_buffer) <= buffer_max_length
    /\ Len(snapshot) <= buffer_max_length

\* C2: the snapshot listen() returns is exactly the last min(N, total) of the
\* samples appended so far, in capture order (total = samples appended, N =
\* buffer_max_length).
SnapshotIsLastN ==
    pc = "listen_copied" =>
        snapshot = LastCaptured(captured, Min(buffer_max_length, captured))

\* C3: when record_query has returned (normally, or with the empty recording
\* after a failed open, read, close or restart), the callback stream is
\* active again.
RecordQueryResumesCapture ==
    pc = "transcribe" => stream = "active"

\* C3 witness: record_query returned after the close of the direct-read
\* stream failed
RecordQueryReturnedAfterCloseFailure ==
    /\ pc = "transcribe"
    /\ rec_path = "close_failed"
    /\ frames = MaxFrames(sample_rate, chunk_size, max_duration)

\* C4: the callback stream is never active while a direct-read stream opened
\* by record_query is still open.
OneInputSession ==
    ~(stream = "active" /\ (record_stream = "open" \/ leaked_in))

\* C5: a turn in which wake detection and every stage succeeded passed
\* through WAKE_LISTENING, RECORDING, TRANSCRIBING, GENERATING, SYNTHESIZING,
\* PLAYING and WAKE_LISTENING in that order, with exactly one call of play.
SuccessfulTurnOrder ==
    (pc = "sleep" /\ turn.detected /\ ~turn.failed) =>
        /\ turn.trace = FullTurn
        /\ turn.play = 1
        /\ turn.record = 1 /\ turn.transcribe = 1
        /\ turn.generate = 1 /\ turn.synthesize = 1
        /\ turn.handle_error = 0 /\ turn.play_error_sound = 0

\* C5 witness: the end of a turn that recorded, transcribed a query,
\* answered it, synthesised audio and played all of it
SuccessfulTurnDone ==
    /\ pc = "sleep"
    /\ turn.detected /\ ~turn.failed
    /\ query_audio > 0 /\ query_text = "query"
    /\ response_text = "rule_response" /\ response_audio = MaxAudio

\* C6 as claimed: a turn whose transcription was empty went from TRANSCRIBING
\* straight back to WAKE_LISTENING with no call of generate_response,
\* synthesize or play.
EmptyTranscriptSkipsResponse ==
    (pc = "sleep" /\ turn.transcribe = 1 /\ query_text = "") =>
        /\ turn.generate = 0 /\ turn.synthesize = 0 /\ turn.play = 0
        /\ turn.trace = <<"WAKE_LISTENING", "RECORDING", "TRANSCRIBING",
                          "WAKE_LISTENING">>

\* C6 as amended: a turn whose transcription was empty still went through
\* GENERATING, SYNTHESIZING and PLAYING; generate_response, synthesize and
\* play were each called once and the response is the fixed reply for an
\* empty query.
EmptyTranscriptStillAnswered ==
    (pc = "sleep" /\ turn.transcribe = 1 /\ query_text = "") =>
        /\ turn.generate = 1 /\ turn.synthesize = 1 /\ turn.play = 1
        /\ response_text = "didnt_catch"
        /\ turn.trace = FullTurn
        /\ turn.handle_error = 0

\* C6 witness: the end of a turn whose non-empty recording was transcribed
\* to the empty text
EmptyTranscriptTurnDone ==
    /\ pc = "sleep"
    /\ turn.transcribe = 1
    /\ query_audio > 0 /\ query_text = ""

\* C7 as claimed: a turn whose recording failed or came back empty returned
\* from RECORDING to WAKE_LISTENING with no call of transcribe,
\* generate_response or synthesize and no play of a response (the beeps of
\* play_error_sound are not counted against it).
FailedRecordingSkipsTurn ==
    (/\ pc = "sleep"
     /\ turn.record = 1
     /\ \/ rec_path \in CaughtRecordingFailures \cup RaisedRecordingFailures
        \/ (rec_path = "normal" /\ query_audio = 0)) =>
        /\ turn.transcribe = 0 /\ turn.generate = 0
        /\ turn.synthesize = 0
        /\ \A i \in 1..Len(turn.trace) : turn.trace[i] # "PLAYING"

\* C7 as amended: a failure record_query catches gives an empty recording
\* that is transcribed, answered, synthesised and played like any other;
\* only a failure record_query raises ends the turn without transcribe,
\* generate_response and synthesize, through error recovery.
FailedRecordingOutcome ==
    pc = "sleep" =>
        /\ rec_path \in CaughtRecordingFailures =>
              /\ query_audio = 0 /\ query_text = ""
              /\ turn.transcribe = 1 /\ turn.generate = 1
              /\ turn.synthesize = 1 /\ turn.play = 1
              /\ turn.handle_error = 0
              /\ turn.trace = FullTurn
        /\ rec_path \in RaisedRecordingFailures =>
              /\ turn.transcribe = 0 /\ turn.generate = 0
              /\ turn.synthesize = 0
              /\ turn.handle_error = 1 /\ turn.play_error_sound = 1
              /\ turn.trace = <<"WAKE_LISTENING", "RECORDING",
                                "ERROR_RECOVERY", "WAKE_LISTENING">>

\* C7 witness: the end of a turn whose recording failed at a device read
FailedReadTurnDone ==
    /\ pc = "sleep"
    /\ rec_path = "read_failed"
    /\ turn.play = 1

\* C8: an exception that reaches the loop body's handler is reported by
\* exactly one handle_error call, followed by exactly one play_error_sound
\* call, and the loop goes on in WAKE_LISTENING; without an exception
\* neither is called.
StageErrorHandledOnce ==
    /\ turn.handle_error <= 1 /\ turn.play_error_sound <= 1
    /\ ~turn.raised => turn.handle_error = 0 /\ turn.play_error_sound = 0
    /\ (pc \in {"sleep", "loop"} /\ turn.raised) =>
          /\ turn.handle_error = 1 /\ turn.play_error_sound = 1
          /\ turn.trace[Len(turn.trace) - 1] = "ERROR_RECOVERY"
          /\ turn.trace[Len(turn.trace)] = "WAKE_LISTENING"
    /\ (pc \in {"cleanup", "done"} /\ turn.raised) => ~running

\* C8 witness: the end of a turn in which generate_response raised and the
\* playback of the error sound failed
RaisedTurnDone ==
    /\ pc = "sleep"
    /\ exc = "KeyError"
    /\ turn.generate = 1 /\ turn.synthesize = 0
    /\ leaked_out

\* C9: the main loop is left only after the shutdown flag was cleared.
LoopExitsOnlyOnShutdown ==
    pc \in {"cleanup", "done"} => ~running

\* C9 witness: the loop starts another cycle after a turn in which an
\* exception was raised and the error report could not be written
LoopSurvivesError ==
    /\ pc = "loop"
    /\ running
    /\ turn.raised
    /\ error_log = 0

\* the orchestrator is inside a cycle of the loop, past the snapshot
InCycle ==
    pc \notin {"listen", "cleanup", "done"}

\* C10: from every position of a cycle, the error-recovery path included,
\* the orchestrator is eventually back taking a new buffer snapshot, unless
\* shutdown was signalled.
TurnAlwaysReturnsToListening ==
    InCycle ~> (pc = "listen" \/ ~running)

\* C10 witness: the last beep of the error sound is being played
PlayingLastErrorBeep ==
    /\ pc = "play_write"
    /\ play_caller = "error"
    /\ beeps = 1
    /\ running

\* the positions of a turn: wake word detected, loop body not yet finished
InTurn ==
    pc \in {"rec_stop", "rec_open", "rec_read", "rec_close", "rec_start",
            "rec_except", "transcribe", "generate", "synthesize",
            "play_open", "play_write", "play_close", "except", "error_sound"}

ExitReleasesAudio ==
    (pc = "done" /\ inited >= 1) =>
        /\ stream = "closed"
        /\ pa = "terminated"
        /\ output_stream = "none" /\ ~leaked_out

\* C13 as claimed: after a device read failed in record_query the frames
\* read so far are not returned, and the failure was reported by one
\* handle_error call that classified it as an audio error.
FailedReadReportedAsAudioError ==
    (pc \in {"transcribe", "sleep"} /\ rec_path = "read_failed") =>
        /\ query_audio = 0
        /\ turn.handle_error = 1
        /\ ClassifyError(exc) = "audio_error"

\* C13 as amended: after a device read failed in record_query the frames
\* read so far are not returned (the recording is empty) and the failure is
\* not passed to handle_error; the turn goes on with the empty recording.
\* Only when the restart of the callback stream in the handler fails as well
\* does an exception reach handle_error, and it is classified as a system
\* error.
FailedReadReturnsEmptyUnreported ==
    /\ (pc \in {"transcribe", "sleep"} /\ rec_path = "read_failed") =>
          /\ query_audio = 0
          /\ turn.transcribe = 1
          /\ turn.handle_error = 0
          /\ turn.play_error_sound = 0
    /\ (pc = "sleep" /\ rec_path = "resume_failed") =>
          /\ turn.handle_error = 1
          /\ turn.transcribe = 0
          /\ ClassifyError(exc) = "system_error"

\* C13 witness: record_query returned after a read failed with frames
\* already accumulated
PartialRecordingDiscarded ==
    /\ pc = "transcribe"
    /\ rec_path = "read_failed"
    /\ frames >= 1

\* C14 as claimed: every turn or scan in which something failed, a failure
\* the component caught itself included, ended with one handle_error call
\* (the error report) and one play_error_sound call.
EveryFailureReportedAndSignalled ==
    (pc = "sleep" /\ turn.failed) =>
        /\ turn.handle_error = 1
        /\ turn.play_error_sound = 1

\* C14 as amended: a failure that is raised to the loop body ends with one
\* handle_error call (which appends one report unless writing the log
\* fails) and one play_error_sound call before the return to
\* WAKE_LISTENING; a failure the component catches itself gives neither a
\* report nor an error sound, and the error log grows nowhere but in
\* handle_error.
OnlyRaisedFailuresReported ==
    /\ [](pc = "sleep" =>
            /\ turn.raised =>
                  /\ turn.handle_error = 1
                  /\ turn.play_error_sound = 1
                  /\ turn.trace[Len(turn.trace) - 1] = "ERROR_RECOVERY"
            /\ (turn.failed /\ ~turn.raised) =>
                  /\ turn.handle_error = 0
                  /\ turn.play_error_sound = 0
                  /\ \A i \in 1..Len(turn.trace) :
                        turn.trace[i] # "ERROR_RECOVERY")
    /\ [][error_log' # error_log =>
             (pc = "except" /\ error_log' = error_log + 1)]_vars

\* C14 witness: the end of a turn in which the recogniser raised inside
\* transcribe
CaughtFailureTurnDone ==
    /\ pc = "sleep"
    /\ turn.failed /\ ~turn.raised
    /\ rec_path = "normal"
    /\ query_audio > 0 /\ query_text = ""
    /\ turn.play = 1

SnapshotHeld ==
    pc \in {"listen_copied", "detect"}

\* C16: the array listen() returns is a copy, never the array object the
\* callback's buffer is bound to, and no callback append or trim changes the
\* contents or length of a snapshot main holds.
SnapshotIsIndependentCopy ==
    /\ [](SnapshotHeld => snapshot_obj = "copy")
    /\ [][(SnapshotHeld /\ SnapshotHeld') => snapshot' = snapshot]_vars

\* C16 witness: the callback appended and trimmed after listen() returned
BufferMovedOnAfterSnapshot ==
    /\ pc = "detect"
    /\ cb_pc = "idle"
    /\ snapshot # <<>>
    /\ audio_buffer # snapshot
    /\ Len(audio_buffer) = Len(snapshot)

\* C17: the callback's append-then-trim and listen()'s copy never overlap,
\* and every snapshot is the last min(N, total) samples of a whole number of
\* captured frames (N = buffer_max_length).
SnapshotIsPrefixConsistent ==
    /\ ~(cb_pc = "appended" /\ pc = "listen_copied")
    /\ SnapshotHeld =>
          \E k \in 0..MaxCaptured :
              /\ k * chunk_size <= captured
              /\ snapshot = LastCaptured(k * chunk_size,
                                         Min(buffer_max_length,
                                             k * chunk_size))

StageRank(st, i) ==
    CASE st = "WAKE_LISTENING" -> IF i = 1 THEN 0 ELSE 7
      [] st = "RECORDING" -> 1
      [] st = "TRANSCRIBING" -> 2
      [] st = "GENERATING" -> 3
      [] st = "SYNTHESIZING" -> 4
      [] st = "PLAYING" -> 5
      [] st = "ERROR_RECOVERY" -> 6
      [] OTHER -> 8

\* C19: per wake detection record_query is called exactly once and
\* transcribe, generate_response, synthesize and play at most once, each only
\* after the one before it, and after a stage raised no later stage runs.
OneUtterancePerDetection ==
    /\ turn.detected <=> turn.record = 1
    /\ turn.record <= 1 /\ turn.transcribe <= turn.record
    /\ turn.generate <= turn.transcribe
    /\ turn.synthesize <= turn.generate
    /\ \A i \in 1..(Len(turn.trace) - 1) :
          StageRank(turn.trace[i], i) < StageRank(turn.trace[i + 1], i + 1)
    /\ (turn.raised /\ exc = "KeyError") => turn.synthesize = 0
    /\ (turn.raised /\ exc = "OSError") => turn.transcribe = 0

\* C19 witness: the end of a turn in which record_query raised
RecordRaisedTurnDone ==
    /\ pc = "sleep"
    /\ turn.raised
    /\ exc = "OSError"
    /\ turn.record = 1

\* C20: when the AudioManager constructor raises, the loop is never entered:
\* no scan, recording or playback happens, no later component is
\* constructed, and main returns 1.
AudioStartupFailureIsFatal ==
    (inited = 0 /\ pc # "init") =>
        /\ pc \in {"cleanup", "done"}
        /\ exit_code = 1
        /\ turn = [NoTurn EXCEPT !.trace = <<"IDLE", "STOPPED">>]
        /\ stream = "none" /\ captured = 0
        /\ output_stream = "none" /\ record_stream = "none"

\* C20 witness: main has returned after the AudioManager constructor raised
ReturnedAfterAudioFailure ==
    /\ pc = "done"
    /\ inited = 0
    /\ exit_code = 1

\* C21: detect feeds the engine consecutive non-overlapping frames of exactly
\* frame_length samples and never a shorter tail, returns true at the first
\* frame the engine reports as a detection without processing a later one,
\* and returns false when no frame triggers, also on a buffer shorter than
\* one frame.
ScanFeedsWholeFramesUntilFirstHit ==
    scan.ret # "idle" =>
        /\ \A k \in 1..Len(scan.fed) :
              /\ Len(scan.fed[k]) = frame_length
              /\ scan.fed[k] = [j \in 1..frame_length |->
                                  scan.buffer[(k - 1) * frame_length + j]]
        /\ Len(scan.fed) * frame_length <= Len(scan.buffer)
        /\ \A k \in 1..(Len(scan.fed) - 1) : scan.engine[k] = "no"
        /\ scan.ret = "true" => scan.engine[Len(scan.fed)] = "hit"
        /\ scan.ret = "false" =>
              /\ \A k \in 1..Len(scan.fed) : scan.engine[k] # "hit"
              /\ \/ Len(scan.fed) = FrameCount(Len(scan.buffer))
                 \/ scan.engine[Len(scan.fed)] = "raise"
        /\ scan.ret # "none" =>
              (scan.ret = "true" <=>
                  Detect(scan.engine, FrameCount(Len(scan.buffer))))
        /\ (\A k \in DOMAIN scan.engine : scan.engine[k] = "no")
              => scan.ret # "true"
        /\ Len(scan.buffer) < frame_length =>
              (scan.fed = <<>> /\ scan.ret # "true")

\* C21 witness: detect returned true at the second of three whole frames of
\* a buffer that ends in a short tail
DetectedAtSecondFrame ==
    /\ scan.ret = "true"
    /\ Len(scan.fed) = 2
    /\ FrameCount(Len(scan.buffer)) = 3
    /\ Len(scan.buffer) > 3 * frame_length
    /\ scan.engine[3] = "hit"

\* C23: with max_attempts = N an operation that fails on every call is
\* invoked exactly N times and never more, the failure is reported once and
\* the exception of the last attempt is re-raised.
RetryExhaustedReraisesLast ==
    retry.ret # "idle" =>
        /\ retry.calls <= retry.max
        /\ ((\A i \in 1..retry.max : retry.script[i] = "fail")
              /\ retry.ret # "none") =>
              /\ retry.calls = retry.max
              /\ retry.reported = 1
              /\ retry.ret = "raised"
              /\ retry.from = retry.max
        /\ retry.ret = "raised" =>
              (retry.script[retry.from] = "fail" /\ retry.from = retry.calls)

\* C23 witness: retry re-raised after more than one failed attempt
RetryGaveUp ==
    /\ retry.ret = "raised"
    /\ retry.max > 1
    /\ retry.calls = retry.max
    /\ retry.reported = 1

\* C24: an operation that fails k < N times and then succeeds is invoked
\* exactly k + 1 times with the same arguments, no attempt follows the first
\* success, and that success is returned, nothing raised.
RetryStopsAtFirstSuccess ==
    \A k \in 0..(retry.max - 1) :
        ((\A i \in 1..k : retry.script[i] = "fail")
           /\ retry.script[k + 1] = "ok") =>
            /\ retry.calls <= k + 1
            /\ retry.args = [i \in 1..retry.calls |-> retry.arg]
            /\ retry.ret # "raised"
            /\ retry.ret = "none" => retry.calls <= k
            /\ retry.ret = "value" =>
                  (retry.calls = k + 1 /\ retry.from = k + 1)

\* C24 witness: retry returned the value of the second attempt with a third
\* attempt still allowed
RetrySucceededOnSecond ==
    /\ retry.ret = "value"
    /\ retry.calls = 2
    /\ retry.max > 2
    /\ retry.script[3] = "fail"

\* the tags of ErrorTypes
ErrorTypes ==
    {"audio_error", "wake_word_error", "asr_error", "llm_error",
     "tts_error", "system_error", "unknown_error"}

\* no keyword of classify_error occurs in the class name
NoKeyword(name) ==
    /\ \A k \in {<<"A", "u", "d", "i", "o">>,
                 <<"P", "y", "A", "u", "d", "i", "o">>,
                 <<"P", "o", "r", "c", "u", "p", "i", "n", "e">>,
                 <<"V", "o", "s", "k">>, <<"A", "S", "R">>,
                 <<"L", "l", "a", "m", "a">>, <<"L", "L", "M">>,
                 <<"T", "T", "S">>, <<"O", "S">>,
                 <<"I", "O">>, <<"F", "i", "l", "e">>, <<"M", "e", "m", "o", "r", "y">>,
                 <<"S", "y", "s", "t", "e", "m">>} :
          ~Contains(Spell(name), k)
    /\ \A k \in {<<"s", "o", "u", "n", "d">>,
                 <<"w", "a", "k", "e">>,
                 <<"r", "e", "c", "o", "g", "n", "i", "t", "i", "o", "n">>,
                 <<"s", "y", "n", "t", "h", "e", "s", "i", "s">>} :
          ~Contains(Lower(Spell(name)), k)

\* C26 as stated: classification yields a component tag together with a
\* severity from {warning, error, critical}.
ClassificationHasTagAndSeverity ==
    report.state = "handled" =>
        /\ report.returned.error_type \in ErrorTypes
        /\ "severity" \in DOMAIN report.returned
        /\ report.returned.severity \in {"warning", "error", "critical"}

\* C26 amended: classification is total and yields exactly one tag of the
\* seven and nothing else (no severity); the saved report carries the same
\* tag; an error matching no keyword is tagged unknown.
ClassificationTotalOneTag ==
    report.state = "handled" =>
        /\ report.returned.error_type \in ErrorTypes
        /\ DOMAIN report.returned = {"error_type", "recovery_action"}
        /\ \A i \in 1..Len(report.saved) :
              /\ DOMAIN report.saved[i] = {"error_type", "error_class"}
              /\ report.saved[i].error_type = report.returned.error_type
        /\ NoKeyword(report.error_class) <=>
              report.returned.error_type = "unknown_error"

\* C26 witness: an exception whose class name has no keyword was classified
ClassifiedUnknown ==
    /\ report.state = "handled"
    /\ report.error_class = "KeyError"
    /\ report.returned.error_type = "unknown_error"

\* C22 as stated: an exception of the wake-word engine during a scan is
\* reported through the error handler.
EngineFailureReported ==
    (pc = "sleep" /\ ~turn.detected /\ turn.failed) =>
        turn.handle_error = 1

\* C22 amended: when the engine raises during a scan, detect returns false
\* for that scan and the exception never reaches the loop's handler; it is
\* logged by detect only: handle_error is not called and no error report is
\* recorded for it.
EngineFailureOnlyLogged ==
    /\ []((~turn.detected /\ turn.failed) =>
            /\ ~turn.raised
            /\ exc = "none"
            /\ turn.record = 0
            /\ turn.handle_error = 0
            /\ turn.play_error_sound = 0
            /\ \A i \in 1..Len(turn.trace) :
                  turn.trace[i] # "ERROR_RECOVERY")
    /\ [][pc = "detect" =>
            /\ error_log' = error_log
            /\ pc' \in {"detect", "rec_stop", "sleep"}]_vars

\* C22 witness: the end of a turn whose scan ended in an engine exception
ScanFailedTurnDone ==
    /\ pc = "sleep"
    /\ ~turn.detected
    /\ turn.failed
    /\ turn.handle_error = 0

\* C25 as stated: handle_error never raises and every call appends exactly
\* one record to the error log.
HandleErrorAlwaysAppends ==
    [][(pc = "except" /\ pc' # "except" /\ error_log < MaxLog) =>
          (pc' = "error_sound" /\ error_log' = error_log + 1)]_vars

\* C25 amended: handle_error never raises, also when writing the log fails;
\* a call appends one record, or none when the write fails; records in the
\* log are never removed.
HandleErrorAppendsUnlessWriteFails ==
    /\ [][(pc = "except" /\ pc' # "except") =>
            /\ pc' = "error_sound"
            /\ turn'.handle_error = turn.handle_error + 1
            /\ \/ error_log' = error_log
               \/ error_log' = error_log + 1]_vars
    /\ [][error_log' >= error_log]_vars

\* C25 witness: handle_error returned although its record was not written
ReportLostHandlerReturned ==
    /\ pc = "error_sound"
    /\ turn.handle_error = 1
    /\ error_log = 0

RECURSIVE Concat(_)
Concat(cs) ==
    IF cs = <<>> THEN <<>> ELSE Head(cs) \o Concat(Tail(cs))

\* C28: play writes the audio in order in chunks of chunk_size samples, only
\* the last of which may be shorter; once the loop is done the chunks
\* written add up to the input audio, and for empty audio no chunk is
\* written.
PlayWritesAudioInChunks ==
    pc = "play_write" =>
        /\ Concat(chunks) = [j \in 1..written |-> j]
        /\ written <= play_arg
        /\ \A k \in 1..Len(chunks) :
              /\ Len(chunks[k]) >= 1
              /\ Len(chunks[k]) <= chunk_size
              /\ k < Len(chunks) => Len(chunks[k]) = chunk_size
        /\ written = play_arg =>
              Concat(chunks) = [j \in 1..play_arg |-> j]
        /\ play_arg = 0 => chunks = <<>>

\* C28 witness: the write loop is done after more than one chunk
AllChunksWritten ==
    /\ pc = "play_write"
    /\ written = play_arg
    /\ Len(chunks) > 1
    /\ output_stream = "open"

\* C29 as stated: every output stream play opened is closed when play
\* returns, also after a failed write; no output stream is open while the
\* orchestrator is not inside play.
OutputStreamClosedOutsidePlay ==
    pc # "play_write" => (output_stream = "none" /\ ~leaked_out)

\* C30: without an error-sound asset play_error_sound plays the same tone
\* ErrorBeeps times and returns; with one it plays the asset exactly once and
\* no tone; a failed playback never leaves play_error_sound as an exception.
ErrorSoundToneThriceOrAssetOnce ==
    /\ [](play_caller = "error" =>
            /\ pc \in {"play_open", "play_write"}
            /\ turn.play_error_sound = 1
            /\ IF error_sound
               THEN beeps = 1 /\ play_arg = MaxAudio /\ turn.play = 1
               ELSE /\ play_arg = ToneLength
                    /\ beeps \in 1..ErrorBeeps
                    /\ turn.play = ErrorBeeps - beeps + 1)
    /\ []((pc = "sleep" /\ turn.play_error_sound = 1) =>
            turn.play = IF error_sound THEN 1 ELSE ErrorBeeps)
    /\ [][(play_caller = "error" /\ play_caller' # "error") =>
            (pc' = "sleep" /\ beeps = 1)]_vars
    /\ [][(play_caller = "error" /\ pc' # pc) =>
            pc' \in {"play_open", "play_write", "sleep"}]_vars

\* C30 witness: play_error_sound returned after the configured asset was
\* played once and that playback failed
AssetPlayedOnceAndFailed ==
    /\ pc = "sleep"
    /\ error_sound
    /\ turn.play_error_sound = 1
    /\ turn.play = 1
    /\ turn.raised
    /\ leaked_out

\* device k of the list can serve as the input (output) device asked for
Matches(list, k, wanted, channels) ==
    /\ Contains(list[k].name, wanted)
    /\ list[k][channels] > 0

\* C31: when _find_devices returns, the input (output) device chosen is one
\* whose name contains the configured name and that has an input (output)
\* channel whenever the list has such a device, and the system default
\* otherwise.
DeviceChosenByNameElseDefault ==
    /\ devices.state = "returned" =>
          /\ IF \E k \in 1..Len(devices.list) :
                   Matches(devices.list, k, input_device_name,
                           "maxInputChannels")
             THEN /\ devices.input_device_index.kind = "index"
                  /\ Matches(devices.list,
                             devices.input_device_index.i + 1,
                             input_device_name, "maxInputChannels")
             ELSE devices.input_device_index.kind = "default"
          /\ IF \E k \in 1..Len(devices.list) :
                   Matches(devices.list, k, output_device_name,
                           "maxOutputChannels")
             THEN /\ devices.output_device_index.kind = "index"
                  /\ Matches(devices.list,
                             devices.output_device_index.i + 1,
                             output_device_name, "maxOutputChannels")
             ELSE devices.output_device_index.kind = "default"
    /\ devices.state = "raised" =>
          \/ \A k \in 1..Len(devices.list) :
                devices.list[k].maxInputChannels = 0
          \/ \A k \in 1..Len(devices.list) :
                devices.list[k].maxOutputChannels = 0

\* C31 witness: _find_devices returned with the input device found by name,
\* past a device of that name without input channels, and the output device
\* the default
InputByNameOutputDefault ==
    /\ devices.state = "returned"
    /\ Len(devices.list) = 2
    /\ Contains(devices.list[2].name, input_device_name)
    /\ devices.list[2].maxInputChannels = 0
    /\ devices.input_device_index = [kind |-> "index", i |-> 0]
    /\ devices.output_device_index.kind = "default"

\* C32 as stated: generate_response never raises to the loop and always
\* returns non-empty text, for every query, engine mode and rule set.
ResponseAlwaysSomeText ==
    /\ exc # "KeyError"
    /\ pc = "synthesize" => response_text # ""

\* C33 as stated: with no synthesis engine and a non-empty text synthesize
\* fails with a synthesis error; with an empty text it returns empty audio.
SynthesizeFailsWithoutEngine ==
    [][(pc = "synthesize" /\ pc' # pc) =>
          IF response_text = ""
          THEN pc' = "play_open" /\ response_audio' = 0
          ELSE tts_engine = "none" => pc' = "except"]_vars

\* C33 amended: synthesize never raises; with no synthesis engine, as with
\* an empty text, it returns empty audio, which main goes on to play.
SynthesizeReturnsEmptyWithoutEngine ==
    [][(pc = "synthesize" /\ pc' # pc) =>
          /\ pc' = "play_open"
          /\ exc' = exc
          /\ play_arg' = response_audio'
          /\ (response_text = "" \/ tts_engine = "none") =>
                response_audio' = 0]_vars

\* C33 witness: main is about to play the empty audio synthesize returned
\* for a non-empty text with no engine available
NoEngineEmptyAudioPlayed ==
    /\ pc = "play_open"
    /\ play_caller = "main"
    /\ tts_engine = "none"
    /\ response_text # ""
    /\ response_audio = 0
    /\ exc = "none"

\* C34 as stated: when the recogniser raises, transcribe fails with a
\* transcription error, which the loop can tell from empty text.
TranscribeFailureRaised ==
    [][(pc = "transcribe" /\ pc' # pc /\ ~turn.failed /\ turn'.failed) =>
          pc' = "except"]_vars

\* C34 amended: transcribe never raises; when the recogniser raises it
\* returns empty text, as it does when no speech was recognised, and the
\* loop goes on to generate_response either way.
TranscribeFailureReturnsEmpty ==
    [][(pc = "transcribe" /\ pc' # pc) =>
          /\ pc' = "generate"
          /\ exc' = exc
          /\ ~turn'.raised
          /\ query_text' \in {"", "query"}
          /\ (~turn.failed /\ turn'.failed) => query_text' = ""]_vars

\* C34 witness: generate_response is about to be called with the empty text
\* transcribe returned when the recogniser raised on a non-empty recording
RecogniserRaisedEmptyText ==
    /\ pc = "generate"
    /\ turn.failed
    /\ query_audio > 0
    /\ query_text = ""
    /\ exc = "none"

\* C35: the shared buffer is changed by the capture callback only: no step
\* of the orchestrator (listen, scan, record_query, play, the error path,
\* start-up and exit) removes or alters a buffered sample, so what was
\* buffered at a detection stays until appends evict it.
BufferChangedOnlyByCallback ==
    /\ [][audio_buffer' # audio_buffer =>
            (cb_pc' # cb_pc /\ pc' = pc /\ turn' = turn)]_vars
    /\ [][(pc' # pc \/ turn' # turn) =>
            (audio_buffer' = audio_buffer /\ captured' = captured)]_vars
    /\ [](audio_buffer # <<>> =>
            audio_buffer[Len(audio_buffer)] = captured)

\* C35 witness: a turn that played its response has ended and the buffer
\* still starts with the first sample ever captured
StaleAudioKeptAfterTurn ==
    /\ pc = "sleep"
    /\ turn.detected
    /\ turn.play = 1
    /\ ~turn.raised
    /\ Len(audio_buffer) >= frame_length
    /\ audio_buffer[1] = 1

\* C36 as stated: for every configured buffer_max_length N >= 0, N = 0
\* included, the buffer holds at most N samples after each append of the
\* capture callback.
CapacityHoldsAfterEachAppend ==
    [][(cb_pc = "appended" /\ cb_pc' = "idle") =>
          Len(audio_buffer') <= buffer_max_length]_vars

\* C37: when main returns, cleanup has been invoked, in the order of
\* construction, on exactly the components whose constructor succeeded,
\* whichever constructor failed or wherever the loop stopped; an exception
\* inside a component's cleanup neither leaves main nor keeps the later
\* components from being cleaned up.
EveryInitializedComponentCleaned ==
    /\ pc # "done" => cleaned = <<>>
    /\ pc = "done" =>
          /\ cleaned = SubSeq(Components, 1, inited)
          /\ exit_code = IF inited < Len(Components) THEN 1 ELSE 0

\* C37 witness: main returned 0 with all five components cleaned up although
\* AudioManager.cleanup ran into an exception before terminating PyAudio
AllCleanedDespiteAudioFailure ==
    /\ pc = "done"
    /\ inited = Len(Components)
    /\ cleaned = Components
    /\ pa = "live"
    /\ exit_code = 0

====
